---- MODULE Spec2Model ----
(***************************************************************************)
(* Visual search server (src/server.js): start-up (init), the half-float   *)
(* decoder of the embedding blob, embed, search and the HTTP handler.      *)
(*                                                                         *)
(* Numbers.  A JavaScript number (IEEE-754 binary64) is a record           *)
(*   [k |-> "fin", s, n, e]   the value s * n * 2^e  (s in {1,-1}),        *)
(*   [k |-> "inf", s, ...]    +Infinity / -Infinity,                       *)
(*   [k |-> "nan", ...]       NaN.                                         *)
(* The significand n is a natural number of any size, written as the       *)
(* sequence of its 15-bit limbs, least significant first (<<>> is 0).      *)
(* Finite values are kept canonical (n odd, or n = 0 and e = 0), so equal  *)
(* numbers are equal records except for the sign of zero, which IEEE-754   *)
(* keeps too.  Every operation computes the exact result and rounds it to  *)
(* the nearest binary64 value, ties to even, as the hardware does.         *)
(***************************************************************************)
EXTENDS Integers, Sequences, FiniteSets, TLC

VARIABLES
  pc,          \* position of init(): "files", "load", "done", "failed"
  nextFile,    \* index into FILES of the next downloadIfMissing call
  session,     \* module global `session`
  meta,        \* module global `meta`
  embeddings,  \* module global `embeddings`
  listening,   \* server.listen(PORT) has been called
  crashed,     \* the process died of an unhandled rejection / uncaught error
  binLength,   \* bin.length of the blob init() read (its local `bin`)
  req,         \* per request: the handler's position and locals, the response
  probe        \* a direct call of a pure function: its arguments and result

vars == <<pc, nextFile, session, meta, embeddings, binLength, listening, crashed,
          req, probe>>

-----------------------------------------------------------------------------
(* Bounds of the model *)

\* rows of the catalog
MaxN == 2
\* width of a feature vector in the model (the code's 512, scaled down)
Dim == 2
\* concurrent requests
MaxReq == 3
\* chunks a request body arrives in
MaxChunks == 2
\* largest topK a direct call of search passes
MaxK == 3

-----------------------------------------------------------------------------
(* Natural numbers of any size: the significands of binary64 arithmetic.
   A number is the sequence of its limbs, least significant first, with no
   zero limb at the top; <<>> is 0. *)

Pow2(k) == 2 ^ k

\* a limb holds 15 bits
Limb == 2 ^ 15

\* number of bits of n >= 0
RECURSIVE BitLen(_)
BitLen(n) == IF n = 0 THEN 0 ELSE 1 + BitLen(n \div 2)

LimbAt(x, j) == IF j >= 1 /\ j <= Len(x) THEN x[j] ELSE 0

RECURSIVE BigTrim(_)
BigTrim(x) ==
  IF Len(x) > 0 /\ x[Len(x)] = 0 THEN BigTrim(SubSeq(x, 1, Len(x) - 1)) ELSE x

RECURSIVE BigFromInt(_)
BigFromInt(i) == IF i = 0 THEN <<>> ELSE <<i % Limb>> \o BigFromInt(i \div Limb)

BigBitLen(x) == IF x = <<>> THEN 0 ELSE 15 * (Len(x) - 1) + BitLen(x[Len(x)])

\* bit i (bit 0 is the lowest)
BigBit(x, i) == (LimbAt(x, (i \div 15) + 1) \div Pow2(i % 15)) % 2

\* the bits below bit k are all zero
BigLowZero(x, k) ==
  \A w \in 1..Len(x) :
    IF w <= k \div 15 THEN x[w] = 0
    ELSE IF w = (k \div 15) + 1 THEN x[w] % Pow2(k % 15) = 0
    ELSE TRUE

\* x * 2^k
BigShl(x, k) ==
  IF x = <<>> THEN <<>>
  ELSE LET w == k \div 15
           b == k % 15
       IN BigTrim([j \in 1..(Len(x) + w + 1) |->
                     IF j <= w THEN 0
                     ELSE ((LimbAt(x, j - w) * Pow2(b)) % Limb)
                            + ((LimbAt(x, j - w - 1) * Pow2(b)) \div Limb)])

\* floor(x / 2^k)
BigShr(x, k) ==
  LET w == k \div 15
      b == k % 15
  IN IF w >= Len(x) THEN <<>>
     ELSE BigTrim([j \in 1..(Len(x) - w) |->
                     (LimbAt(x, j + w) \div Pow2(b))
                       + ((LimbAt(x, j + w + 1) % Pow2(b)) * Pow2(15 - b))])

RECURSIVE BigCmpAt(_, _, _)
BigCmpAt(x, y, j) ==
  IF j = 0 THEN 0
  ELSE IF x[j] < y[j] THEN -1
  ELSE IF x[j] > y[j] THEN 1
  ELSE BigCmpAt(x, y, j - 1)

\* -1, 0, 1 as x < y, x = y, x > y
BigCmp(x, y) ==
  IF Len(x) < Len(y) THEN -1
  ELSE IF Len(x) > Len(y) THEN 1
  ELSE BigCmpAt(x, y, Len(x))

RECURSIVE BigAddAt(_, _, _, _)
BigAddAt(x, y, j, carry) ==
  IF j > Len(x) /\ j > Len(y) THEN (IF carry = 0 THEN <<>> ELSE <<carry>>)
  ELSE LET t == LimbAt(x, j) + LimbAt(y, j) + carry
       IN <<t % Limb>> \o BigAddAt(x, y, j + 1, t \div Limb)

BigAdd(x, y) == BigAddAt(x, y, 1, 0)

RECURSIVE BigSubAt(_, _, _, _)
BigSubAt(x, y, j, borrow) ==
  IF j > Len(x) THEN <<>>
  ELSE LET t == x[j] - LimbAt(y, j) - borrow
       IN IF t < 0 THEN <<t + Limb>> \o BigSubAt(x, y, j + 1, 1)
          ELSE <<t>> \o BigSubAt(x, y, j + 1, 0)

\* x - y for x >= y
BigSub(x, y) == BigTrim(BigSubAt(x, y, 1, 0))

RECURSIVE BigMulLimbAt(_, _, _, _)
BigMulLimbAt(x, m, j, carry) ==
  IF j > Len(x) THEN (IF carry = 0 THEN <<>> ELSE <<carry>>)
  ELSE LET t == x[j] * m + carry
       IN <<t % Limb>> \o BigMulLimbAt(x, m, j + 1, t \div Limb)

RECURSIVE BigMul(_, _)
BigMul(x, y) ==
  IF x = <<>> \/ y = <<>> THEN <<>>
  ELSE LET rest == BigMul(x, Tail(y))
       IN BigAdd(BigTrim(BigMulLimbAt(x, y[1], 1, 0)),
                 IF rest = <<>> THEN <<>> ELSE <<0>> \o rest)

\* long division, the step's end: the remainder r2 gives the quotient q2 its
\* lowest bit
BigDivNext(d, q2, r2, i) ==
  IF BigCmp(r2, d) >= 0
  THEN [q |-> BigAdd(q2, <<1>>), r |-> BigSub(r2, d), i |-> i - 1]
  ELSE [q |-> q2, r |-> r2, i |-> i - 1]

\* one step of long division: bit st.i of x is brought down to the remainder
\* st.r and the quotient st.q gets its next bit
BigDivBit(x, d, st) ==
  BigDivNext(d, BigShl(st.q, 1),
             IF BigBit(x, st.i) = 1 THEN BigAdd(BigShl(st.r, 1), <<1>>)
             ELSE BigShl(st.r, 1),
             st.i)

\* up to `turns` steps of it, down to bit 0
RECURSIVE BigDivTurns(_, _, _, _)
BigDivTurns(x, d, st, turns) ==
  IF st.i < 0 \/ turns = 0 THEN st
  ELSE IF turns = 1 THEN BigDivBit(x, d, st)
  ELSE BigDivTurns(x, d, BigDivTurns(x, d, st, turns \div 2),
                   turns - (turns \div 2))

\* the quotient q and the remainder r of x / d
BigDivMod(x, d) ==
  BigDivTurns(x, d, [q |-> <<>>, r |-> <<>>, i |-> BigBitLen(x) - 1], BigBitLen(x))

\* the root st.r becomes c when the square of c still fits in x
BigSqrtTry(x, st, c) ==
  [r |-> IF BigCmp(BigMul(c, c), x) <= 0 THEN c ELSE st.r, i |-> st.i - 1]

\* one step of the integer square root of x: bit st.i is set in the root
\* st.r when the square still fits
BigSqrtBit(x, st) == BigSqrtTry(x, st, BigAdd(st.r, BigShl(<<1>>, st.i)))

RECURSIVE BigSqrtTurns(_, _, _)
BigSqrtTurns(x, st, turns) ==
  IF st.i < 0 \/ turns = 0 THEN st
  ELSE IF turns = 1 THEN BigSqrtBit(x, st)
  ELSE BigSqrtTurns(x, BigSqrtTurns(x, st, turns \div 2), turns - (turns \div 2))

\* floor of the square root of x
BigSqrt(x) ==
  BigSqrtTurns(x, [r |-> <<>>, i |-> BigBitLen(x) \div 2], (BigBitLen(x) \div 2) + 1).r

\* the number of zero bits below the lowest set bit of x # 0
RECURSIVE BigTrailingZeros(_)
BigTrailingZeros(x) ==
  IF x[1] = 0 THEN 15 + BigTrailingZeros(Tail(x))
  ELSE IF x[1] % 2 = 1 THEN 0
  ELSE 1 + BigTrailingZeros(<<x[1] \div 2>>)

\* the remainder of (limbs j and up of x) / d, for a small d
RECURSIVE BigRemAt(_, _, _)
BigRemAt(x, d, j) ==
  IF j > Len(x) THEN 0 ELSE (BigRemAt(x, d, j + 1) * Limb + x[j]) % d

\* floor(x / d) for a small d
BigDivSmall(x, d) ==
  BigTrim([j \in 1..Len(x) |-> (BigRemAt(x, d, j + 1) * Limb + x[j]) \div d])

\* the decimal digits of x, most significant first
RECURSIVE BigDecimal(_)
BigDecimal(x) ==
  IF x = <<>> THEN <<>>
  ELSE BigDecimal(BigDivSmall(x, 10)) \o <<BigRemAt(x, 10, 1)>>

-----------------------------------------------------------------------------
(* Numbers *)

\* the finite number s * x * 2^e in canonical form
Num(s, x, e) ==
  IF x = <<>> THEN [k |-> "fin", s |-> s, n |-> <<>>, e |-> 0]
  ELSE LET z == BigTrailingZeros(x)
       IN [k |-> "fin", s |-> s, n |-> BigShr(x, z), e |-> e + z]

\* s * n * 2^e for an integer n >= 0
Fin(s, n, e) == Num(s, BigFromInt(n), e)

Inf(s) == [k |-> "inf", s |-> s, n |-> <<>>, e |-> 0]
NaN == [k |-> "nan", s |-> 1, n |-> <<>>, e |-> 0]
Zero == Fin(1, 0, 0)
Int2F(i) == IF i < 0 THEN Fin(-1, -i, 0) ELSE Fin(1, i, 0)

IsNaN(a) == a.k = "nan"
IsFinite(a) == a.k = "fin"
IsZero(a) == a.k = "fin" /\ a.n = <<>>

FNeg(a) == IF a.k = "nan" THEN a ELSE [a EXCEPT !.s = -a.s]

\* s * q * 2^e, or the infinity when it lies above the largest binade 2^top
RoundTop(s, q, e, top) ==
  IF BigBitLen(q) + e - 1 > top THEN Inf(s) ELSE Num(s, q, e)

\* q, the bits kept, goes up by one when the first bit dropped (guard) is set
\* and either a lower one is (rest) or q is odd
RoundUp(s, q, e, top, guard, rest) ==
  RoundTop(s, IF guard /\ (rest \/ BigBit(q, 0) = 1) THEN BigAdd(q, <<1>>) ELSE q,
           e, top)

\* the lowest d bits of x are dropped
RoundDrop(s, x, e, inexact, top, d) ==
  IF d <= 0 THEN RoundTop(s, x, e, top)
  ELSE RoundUp(s, BigShr(x, d), e + d, top, BigBit(x, d - 1) = 1,
               inexact \/ ~BigLowZero(x, d - 1))

\* IEEE-754 rounding to nearest, ties to even, of s * x * 2^e (plus a nonzero
\* part below the last bit of x when `inexact`) into a format of p significand
\* bits whose smallest subnormal is 2^lsb and whose largest binade is 2^top
Round(s, x, e, inexact, p, lsb, top) ==
  IF x = <<>> THEN Num(s, <<>>, 0)
  ELSE RoundDrop(s, x, e, inexact, top,
                 IF BigBitLen(x) - p > lsb - e THEN BigBitLen(x) - p ELSE lsb - e)

\* a result of binary64 arithmetic
Round64(s, x, e, inexact) == Round(s, x, e, inexact, 53, -1074, 1023)

\* a * b
FMul(a, b) ==
  IF a.k = "nan" \/ b.k = "nan" THEN NaN
  ELSE IF a.k = "inf" \/ b.k = "inf"
       THEN IF IsZero(a) \/ IsZero(b) THEN NaN ELSE Inf(a.s * b.s)
  ELSE Round64(a.s * b.s, BigMul(a.n, b.n), a.e + b.e, FALSE)

\* the sum of s(a) * x * 2^lo and s(b) * y * 2^lo, c the order of x and y
FAddAligned(a, b, x, y, lo, c) ==
  IF a.s # b.s /\ c = 0 THEN Zero
  ELSE Round64(IF a.s = b.s \/ c > 0 THEN a.s ELSE b.s,
               IF a.s = b.s THEN BigAdd(x, y)
               ELSE IF c > 0 THEN BigSub(x, y)
               ELSE BigSub(y, x),
               lo, FALSE)

\* the sum of two finite nonzero numbers, lo the smaller of their exponents
FAddAt(a, b, lo) ==
  FAddAligned(a, b, BigShl(a.n, a.e - lo), BigShl(b.n, b.e - lo), lo,
              BigCmp(BigShl(a.n, a.e - lo), BigShl(b.n, b.e - lo)))

\* a + b; an operand more than 60 binades below the other cannot move the
\* rounded sum
FAdd(a, b) ==
  IF a.k = "nan" \/ b.k = "nan" THEN NaN
  ELSE IF a.k = "inf" /\ b.k = "inf" THEN (IF a.s = b.s THEN a ELSE NaN)
  ELSE IF a.k = "inf" THEN a
  ELSE IF b.k = "inf" THEN b
  ELSE IF a.n = <<>> /\ b.n = <<>> THEN (IF a.s = -1 /\ b.s = -1 THEN a ELSE Zero)
  ELSE IF a.n = <<>> THEN b
  ELSE IF b.n = <<>> THEN a
  ELSE IF (a.e + BigBitLen(a.n)) - (b.e + BigBitLen(b.n)) > 60 THEN a
  ELSE IF (b.e + BigBitLen(b.n)) - (a.e + BigBitLen(a.n)) > 60 THEN b
  ELSE FAddAt(a, b, IF a.e < b.e THEN a.e ELSE b.e)

\* a - b
FSub(a, b) == FAdd(a, FNeg(b))

\* the quotient d.q with a remainder d.r below it, rounded
FDivRound(s, d, e) == Round64(s, d.q, e, d.r # <<>>)

\* a / b: the quotient is carried to at least 55 bits, the remainder tells
\* whether anything is left below them, and the result is rounded once
FDiv(a, b) ==
  IF a.k = "nan" \/ b.k = "nan" THEN NaN
  ELSE IF a.k = "inf" THEN (IF b.k = "inf" THEN NaN ELSE Inf(a.s * b.s))
  ELSE IF b.k = "inf" THEN Num(a.s * b.s, <<>>, 0)
  ELSE IF b.n = <<>> THEN (IF a.n = <<>> THEN NaN ELSE Inf(a.s * b.s))
  ELSE IF a.n = <<>> THEN Num(a.s * b.s, <<>>, 0)
  ELSE IF b.n = <<1>> THEN Round64(a.s * b.s, a.n, a.e - b.e, FALSE)
  ELSE LET gap == 55 + BigBitLen(b.n) - BigBitLen(a.n)
           sh == IF gap > 0 THEN gap ELSE 0
       IN FDivRound(a.s * b.s, BigDivMod(BigShl(a.n, sh), b.n), a.e - b.e - sh)

\* the integer root r of `wide`, rounded; it is inexact when r * r # wide
ISqrtRound(wide, r, e) == Round64(1, r, e, BigMul(r, r) # wide)

\* the root of x * 2^e for an even e: x is widened to at least 109 bits, its
\* integer root has at least 55, and the result is rounded once
ISqrt(x, e) ==
  LET gap == 110 - BigBitLen(x)
      sh == IF gap > 0 THEN 2 * ((gap + 1) \div 2) ELSE 0
  IN ISqrtRound(BigShl(x, sh), BigSqrt(BigShl(x, sh)), (e - sh) \div 2)

\* Math.sqrt(a)
FSqrt(a) ==
  IF a.k = "nan" THEN NaN
  ELSE IF a.k = "inf" THEN (IF a.s = 1 THEN a ELSE NaN)
  ELSE IF a.n = <<>> THEN a
  ELSE IF a.s = -1 THEN NaN
  ELSE IF a.e % 2 = 0 /\ a.n = <<1>> THEN Num(1, <<1>>, a.e \div 2)
  ELSE ISqrt(IF a.e % 2 = 0 THEN a.n ELSE BigShl(a.n, 1),
             IF a.e % 2 = 0 THEN a.e ELSE a.e - 1)

\* the sign of a comparator's result as Array.prototype.sort reads it:
\* NaN counts as +0
Sign(a) ==
  IF a.k = "nan" THEN 0
  ELSE IF a.k = "fin" /\ a.n = <<>> THEN 0
  ELSE a.s

\* storing into a Float32Array: the nearest binary32 value, ties to even
ToFloat32(a) ==
  IF a.k # "fin" THEN a ELSE Round(a.s, a.n, a.e, FALSE, 24, -149, 127)

-----------------------------------------------------------------------------
(* Half-float blob *)

\* Buffer.readUInt16LE(off): the two bytes at off, off+1 (0-based), low byte first.
\* Outside the buffer it throws (RangeError), reported as -1.
readUInt16LE(bin, off) ==
  IF off + 2 > Len(bin) THEN -1 ELSE bin[off + 1] + 256 * bin[off + 2]

\* a variant that takes a 4-bit exponent field
HalfToFloatNarrow(h) ==
  LET s == (h \div 32768) % 2
      e == (h \div 1024) % 16
      m == h % 1024
      sg == Int2F(IF s # 0 THEN -1 ELSE 1)
  IN IF e = 0
       THEN FMul(FMul(sg, Fin(1, 1, -14)), FDiv(Int2F(m), Int2F(1024)))
     ELSE IF e = 31
       THEN (IF m # 0 THEN NaN ELSE (IF s # 0 THEN Inf(-1) ELSE Inf(1)))
     ELSE FMul(FMul(sg, Fin(1, 1, e - 15)),
               FAdd(Int2F(1), FDiv(Int2F(m), Int2F(1024))))

\* lines 40-43: s = (h & 0x8000) >> 15, e = (h & 0x7C00) >> 10, m = h & 0x03FF;
\*   e === 0  : (s ? -1 : 1) * 2 ** -14 * (m / 1024)
\*   e === 31 : m ? NaN : (s ? -Infinity : Infinity)
\*   else     : (s ? -1 : 1) * 2 ** (e - 15) * (1 + m / 1024)
HalfToFloat(h) ==
  LET s == (h \div 32768) % 2
      e == (h \div 1024) % 32
      m == h % 1024
      sg == Int2F(IF s # 0 THEN -1 ELSE 1)
  IN IF e = 0
       THEN FMul(FMul(sg, Fin(1, 1, -14)), FDiv(Int2F(m), Int2F(1024)))
     ELSE IF e = 31
       THEN (IF m # 0 THEN NaN ELSE (IF s # 0 THEN Inf(-1) ELSE Inf(1)))
     ELSE FMul(FMul(sg, Fin(1, 1, e - 15)),
               FAdd(Int2F(1), FDiv(Int2F(m), Int2F(1024))))

\* lines 37-44: embeddings = new Float32Array(n) (zero-filled), then element i is
\* decoded from the word at byte 2*i; a read outside the blob throws and leaves
\* the elements decoded so far in place.
RECURSIVE DecodeLoop(_, _, _, _)
DecodeLoop(bin, emb, i, n) ==
  IF i >= n THEN [ok |-> TRUE, v |-> emb]
  ELSE LET h == readUInt16LE(bin, i * 2)
       IN IF h < 0 THEN [ok |-> FALSE, v |-> emb]
          ELSE DecodeLoop(bin, [emb EXCEPT ![i + 1] = ToFloat32(HalfToFloat(h))],
                          i + 1, n)

DecodeBlob(bin, n) == DecodeLoop(bin, [i \in 1..n |-> Zero], 0, n)

-----------------------------------------------------------------------------
(* embed *)

\* emb.reduce((s, v) => s + v * v, 0)
RECURSIVE SumSquares(_, _, _)
SumSquares(emb, j, acc) ==
  IF j > Len(emb) THEN acc
  ELSE SumSquares(emb, j + 1, FAdd(acc, FMul(emb[j], emb[j])))

\* line 58: emb.map(v => v / norm)
Scaled(emb, norm) == [j \in 1..Len(emb) |-> FDiv(emb[j], norm)]

\* lines 57-58: norm = Math.sqrt(sum of squares); return emb.map(v => v / norm)
Normalize(emb) == Scaled(emb, FSqrt(SumSquares(emb, 1, Zero)))

-----------------------------------------------------------------------------
(* search *)

\* lines 64-65: dot = 0; for j: dot += query[j] * embeddings[off + j]
RECURSIVE Dot(_, _, _, _, _)
Dot(query, emb, off, j, acc) ==
  IF j >= Dim THEN acc
  ELSE Dot(query, emb, off, j + 1, FAdd(acc, FMul(query[j + 1], emb[off + j + 1])))

\* lines 62-67: scores[i] for every row i (0-based row i is element i+1 here)
Scores(query, m, emb) ==
  [i \in 1..Len(m) |-> ToFloat32(Dot(query, emb, (i - 1) * Dim, 0, Zero))]

\* line 68: the comparator (a, b) => scores[b] - scores[a], on 0-based keys,
\* as the sort reads it
Order(scores, a, b) == Sign(FSub(scores[b + 1], scores[a + 1]))

(* Array.prototype.sort (V8, third_party/v8/builtins/array-sort.tq): the keys
   are sorted in a work array w, whose index i (0-based, as in the builtin) is
   element i + 1 here.  The builtin's loops are run by halving their range,
   which makes the same comparisons in the same order. *)

\* ComputeMinRunLength: n itself below 64, else its top 6 bits plus one when
\* any lower bit is set
RECURSIVE ComputeMinRunLength(_, _)
ComputeMinRunLength(n, r) ==
  IF n < 64 THEN n + r
  ELSE ComputeMinRunLength(n \div 2, IF n % 2 = 1 THEN 1 ELSE r)

\* the element whose order with its predecessor is `order` ends the run:
\* order >= 0 in a descending run, order < 0 in an ascending one
RunEnds(desc, order) == (desc /\ order >= 0) \/ (~desc /\ order < 0)

\* CountAndMakeRun's loop over idx in [from, to): the first idx whose element
\* ends the run, or `to` when there is none
RECURSIVE RunLength(_, _, _, _, _)
RunLength(scores, w, from, to, desc) ==
  IF from >= to THEN to
  ELSE IF to - from = 1
  THEN (IF RunEnds(desc, Order(scores, w[from + 1], w[from])) THEN from ELSE to)
  ELSE LET mid == from + ((to - from) \div 2)
           first == RunLength(scores, w, from, mid, desc)
       IN IF first < mid THEN first ELSE RunLength(scores, w, mid, to, desc)

\* ReverseRange: w[from, to) reversed
ReverseRange(w, from, to) ==
  [p \in 1..Len(w) |->
     IF p - 1 >= from /\ p - 1 < to THEN w[from + to - p + 1] ELSE w[p]]

\* the run w[low, end), reversed in place when it descends
MadeRun(w, low, end, desc) ==
  [w |-> IF desc THEN ReverseRange(w, low, end) ELSE w, run |-> end - low]

\* the run at low, of two elements at least, given the order of the first two
CountRun(scores, w, low, high, desc) ==
  MadeRun(w, low, RunLength(scores, w, low + 2, high, desc), desc)

\* CountAndMakeRun: the length of the run at low, made ascending
CountAndMakeRun(scores, w, low, high) ==
  IF low + 1 = high THEN [w |-> w, run |-> 1]
  ELSE CountRun(scores, w, low, high, Order(scores, w[low + 2], w[low + 1]) < 0)

\* the binary search of BinaryInsertionSort
RECURSIVE InsertionPoint(_, _, _, _, _)
InsertionPoint(scores, w, pivot, left, right) ==
  IF left >= right THEN left
  ELSE LET mid == left + ((right - left) \div 2)
       IN IF Order(scores, pivot, w[mid + 1]) < 0
          THEN InsertionPoint(scores, w, pivot, left, mid)
          ELSE InsertionPoint(scores, w, pivot, mid + 1, right)

\* the elements of w[left, start) move up by one and pivot goes to w[left]
InsertAt(B, pivot, left) ==
  [w |-> [p \in 1..Len(B.w) |->
            IF p - 1 < left \/ p - 1 > B.start THEN B.w[p]
            ELSE IF p - 1 = left THEN pivot
            ELSE B.w[p - 1]],
   start |-> B.start + 1]

\* one turn of BinaryInsertionSort: w[start] is inserted into w[low, start)
InsertOne(scores, B, low) ==
  InsertAt(B, B.w[B.start + 1],
           InsertionPoint(scores, B.w, B.w[B.start + 1], low, B.start))

\* up to `turns` turns of it, until start reaches high
RECURSIVE InsertTurns(_, _, _, _, _)
InsertTurns(scores, B, low, high, turns) ==
  IF B.start >= high \/ turns = 0 THEN B
  ELSE IF turns = 1 THEN InsertOne(scores, B, low)
  ELSE InsertTurns(scores, InsertTurns(scores, B, low, high, turns \div 2),
                   low, high, turns - (turns \div 2))

\* BinaryInsertionSort: w[low, start) is sorted; w[start, high) is inserted,
\* one element after the other
BinaryInsertionSort(scores, w, low, start, high) ==
  InsertTurns(scores, [w |-> w, start |-> start], low, high, high - low).w

\* Copy: n elements of src from si into dst at di
CopyRange(src, si, dst, di, n) ==
  [p \in 1..Len(dst) |->
     IF p - 1 >= di /\ p - 1 < di + n THEN src[p - di + si] ELSE dst[p]]

Put(w, i, v) == [w EXCEPT ![i + 1] = v]

\* the element at i sorts before the place of key: arr[i] < key in
\* GallopLeft, arr[i] <= key (key < arr[i] is false) in GallopRight
Before(scores, arr, key, i, left) ==
  (Order(scores, IF left THEN arr[i + 1] ELSE key,
         IF left THEN key ELSE arr[i + 1]) < 0) <=> left

\* the galloping loop from `at` in direction dir: offsets 1, 3, 7, ...
RECURSIVE GallopOut(_, _, _, _, _, _, _, _, _)
GallopOut(scores, arr, key, at, dir, maxOfs, left, lastOfs, offset) ==
  IF offset < maxOfs
       /\ (Before(scores, arr, key, at + dir * offset, left) <=> (dir = 1))
  THEN GallopOut(scores, arr, key, at, dir, maxOfs, left, offset, 2 * offset + 1)
  ELSE <<lastOfs, IF offset > maxOfs THEN maxOfs ELSE offset>>

\* the binary search that ends a gallop
RECURSIVE GallopSearch(_, _, _, _, _, _, _)
GallopSearch(scores, arr, key, base, left, lastOfs, offset) ==
  IF lastOfs >= offset THEN offset
  ELSE LET m == lastOfs + ((offset - lastOfs) \div 2)
       IN IF Before(scores, arr, key, base + m, left)
          THEN GallopSearch(scores, arr, key, base, left, m + 1, offset)
          ELSE GallopSearch(scores, arr, key, base, left, lastOfs, m)

\* the offsets from base between which key goes, from the offsets g the
\* galloping loop ended with
GallopRange(g, hint, up) ==
  IF up THEN <<g[1] + hint, g[2] + hint>> ELSE <<hint - g[2], hint - g[1]>>

GallopBetween(scores, arr, key, base, left, range) ==
  GallopSearch(scores, arr, key, base, left, range[1] + 1, range[2])

\* the gallop goes up from the hint when the element there is before key,
\* down otherwise
GallopFrom(scores, arr, key, base, length, hint, left, up) ==
  GallopBetween(scores, arr, key, base, left,
    GallopRange(GallopOut(scores, arr, key, base + hint, IF up THEN 1 ELSE -1,
                          IF up THEN length - hint ELSE hint + 1, left, 0, 1),
                hint, up))

Gallop(scores, arr, key, base, length, hint, left) ==
  GallopFrom(scores, arr, key, base, length, hint, left,
             Before(scores, arr, key, base + hint, left))

\* GallopLeft, GallopRight: where key goes in the sorted arr[base, base+length),
\* before (left) or after (right) the elements equal to it
GallopLeft(scores, arr, key, base, length, hint) ==
  Gallop(scores, arr, key, base, length, hint, TRUE)

GallopRight(scores, arr, key, base, length, hint) ==
  Gallop(scores, arr, key, base, length, hint, FALSE)

(* MergeLow and MergeHigh.  M holds the builtin's locals: w (workArray), t
   (tempArray), dest, ct (cursorTemp), cur (cursorB in MergeLow, cursorA in
   MergeHigh), base (baseA), la, lb (lengthA, lengthB), mg (minGallop), wa,
   wb (nofWinsA, nofWinsB), first (firstIteration), and at which place the
   merge is: "lowTake" and "highTake" are the one-at-a-time loops,
   "lowGallop" and "highGallop" the galloping loops, "done" the return. *)

Finish(M, w) == [M EXCEPT !.at = "done", !.w = w]

\* MergeLow, label Succeed
MergeLowSucceed(M) ==
  Finish(M, IF M.la > 0 THEN CopyRange(M.t, M.ct, M.w, M.dest, M.la) ELSE M.w)

\* MergeLow, label CopyB
MergeLowCopyB(M) ==
  Finish(M, Put(CopyRange(M.w, M.cur, M.w, M.dest, M.lb), M.dest + M.lb,
                M.t[M.ct + 1]))

\* MergeLow, one turn of the one-at-a-time loop
MergeLowTake(scores, M) ==
  IF Order(scores, M.w[M.cur + 1], M.t[M.ct + 1]) < 0
  THEN LET N == [M EXCEPT !.w = Put(M.w, M.dest, M.w[M.cur + 1]),
                          !.dest = @ + 1, !.cur = @ + 1, !.lb = @ - 1,
                          !.wb = @ + 1, !.wa = 0]
       IN IF N.lb = 0 THEN MergeLowSucceed(N)
          ELSE IF N.wb >= N.mg
          THEN [N EXCEPT !.mg = @ + 1, !.at = "lowGallop", !.first = TRUE]
          ELSE N
  ELSE LET N == [M EXCEPT !.w = Put(M.w, M.dest, M.t[M.ct + 1]),
                          !.dest = @ + 1, !.ct = @ + 1, !.la = @ - 1,
                          !.wa = @ + 1, !.wb = 0]
       IN IF N.la = 1 THEN MergeLowCopyB(N)
          ELSE IF N.wa >= N.mg
          THEN [N EXCEPT !.mg = @ + 1, !.at = "lowGallop", !.first = TRUE]
          ELSE N

\* MergeLow's galloping loop, after its second copy: one element of the run
\* in the temp array follows
MergeLowGallopEnd(C, wb) ==
  IF wb > 0 /\ C.lb = 0 THEN MergeLowSucceed(C)
  ELSE IF C.la = 2 THEN MergeLowCopyB([C EXCEPT !.w = Put(C.w, C.dest, C.t[C.ct + 1]),
                                                !.dest = @ + 1, !.ct = @ + 1,
                                                !.la = @ - 1])
  ELSE [C EXCEPT !.w = Put(C.w, C.dest, C.t[C.ct + 1]),
                 !.dest = @ + 1, !.ct = @ + 1, !.la = @ - 1]

\* nofWinsB = wb elements of the run in the work array are copied
MergeLowGallopB(B, wb) ==
  MergeLowGallopEnd([B EXCEPT !.wb = wb,
                              !.w = IF wb > 0
                                    THEN CopyRange(B.w, B.cur, B.w, B.dest, wb)
                                    ELSE B.w,
                              !.dest = @ + wb, !.cur = @ + wb, !.lb = @ - wb],
                    wb)

\* after the first copy one element of the run in the work array has
\* followed: gallopLeft for the next element of the temp array
MergeLowGallopMid(scores, B) ==
  IF B.lb = 0 THEN MergeLowSucceed(B)
  ELSE MergeLowGallopB(B, GallopLeft(scores, B.w, B.t[B.ct + 1], B.cur, B.lb, 0))

\* after the first copy
MergeLowGallopNext(scores, A, wa) ==
  IF wa > 0 /\ A.la = 1 THEN MergeLowCopyB(A)
  ELSE IF wa > 0 /\ A.la = 0 THEN MergeLowSucceed(A)
  ELSE MergeLowGallopMid(scores,
         [A EXCEPT !.w = Put(A.w, A.dest, A.w[A.cur + 1]),
                   !.dest = @ + 1, !.cur = @ + 1, !.lb = @ - 1])

\* nofWinsA = wa elements of the temp array are copied
MergeLowGallopA(scores, M, wa) ==
  MergeLowGallopNext(scores,
    [M EXCEPT !.first = FALSE,
              !.mg = IF @ - 1 < 1 THEN 1 ELSE @ - 1,
              !.wa = wa,
              !.w = IF wa > 0 THEN CopyRange(M.t, M.ct, M.w, M.dest, wa)
                    ELSE M.w,
              !.dest = @ + wa, !.ct = @ + wa, !.la = @ - wa],
    wa)

\* MergeLow, one turn of the galloping loop (or its end)
MergeLowGallop(scores, M) ==
  IF ~(M.wa >= 7 \/ M.wb >= 7 \/ M.first)
  THEN [M EXCEPT !.mg = @ + 1, !.wa = 0, !.wb = 0, !.at = "lowTake"]
  ELSE MergeLowGallopA(scores, M,
                       GallopRight(scores, M.t, M.w[M.cur + 1], M.ct, M.la, 0))

\* MergeHigh, label Succeed
MergeHighSucceed(M) ==
  Finish(M, IF M.lb > 0 THEN CopyRange(M.t, 0, M.w, M.dest - (M.lb - 1), M.lb)
            ELSE M.w)

\* MergeHigh, label CopyA
MergeHighCopyA(M) ==
  Finish(M, Put(CopyRange(M.w, M.cur - M.la + 1, M.w, M.dest - M.la + 1, M.la),
                M.dest - M.la, M.t[M.ct + 1]))

\* MergeHigh, one turn of the one-at-a-time loop
MergeHighTake(scores, M) ==
  IF Order(scores, M.t[M.ct + 1], M.w[M.cur + 1]) < 0
  THEN LET N == [M EXCEPT !.w = Put(M.w, M.dest, M.w[M.cur + 1]),
                          !.dest = @ - 1, !.cur = @ - 1, !.la = @ - 1,
                          !.wa = @ + 1, !.wb = 0]
       IN IF N.la = 0 THEN MergeHighSucceed(N)
          ELSE IF N.wa >= N.mg
          THEN [N EXCEPT !.mg = @ + 1, !.at = "highGallop", !.first = TRUE]
          ELSE N
  ELSE LET N == [M EXCEPT !.w = Put(M.w, M.dest, M.t[M.ct + 1]),
                          !.dest = @ - 1, !.ct = @ - 1, !.lb = @ - 1,
                          !.wb = @ + 1, !.wa = 0]
       IN IF N.lb = 1 THEN MergeHighCopyA(N)
          ELSE IF N.wb >= N.mg
          THEN [N EXCEPT !.mg = @ + 1, !.at = "highGallop", !.first = TRUE]
          ELSE N

\* MergeHigh's galloping loop, after its second copy: one element of the run
\* in the work array follows
MergeHighGallopEnd(C, wb) ==
  IF wb > 0 /\ C.lb = 1 THEN MergeHighCopyA(C)
  ELSE IF wb > 0 /\ C.lb = 0 THEN MergeHighSucceed(C)
  ELSE IF C.la = 1 THEN MergeHighSucceed([C EXCEPT !.w = Put(C.w, C.dest, C.w[C.cur + 1]),
                                                   !.dest = @ - 1, !.cur = @ - 1,
                                                   !.la = @ - 1])
  ELSE [C EXCEPT !.w = Put(C.w, C.dest, C.w[C.cur + 1]),
                 !.dest = @ - 1, !.cur = @ - 1, !.la = @ - 1]

\* nofWinsB = wb elements of the temp array are copied
MergeHighGallopB(B, wb) ==
  MergeHighGallopEnd([B EXCEPT !.wb = wb,
                               !.w = IF wb > 0
                                     THEN CopyRange(B.t, B.ct - wb + 1, B.w,
                                                    B.dest - wb + 1, wb)
                                     ELSE B.w,
                               !.dest = @ - wb, !.ct = @ - wb, !.lb = @ - wb],
                     wb)

\* after the first copy one element of the temp array has followed:
\* gallopLeft for the next element of the run in the work array
MergeHighGallopMid(scores, B) ==
  IF B.lb = 1 THEN MergeHighCopyA(B)
  ELSE MergeHighGallopB(B, B.lb - GallopLeft(scores, B.t, B.w[B.cur + 1], 0,
                                             B.lb, B.lb - 1))

\* after the first copy
MergeHighGallopNext(scores, A, wa) ==
  IF wa > 0 /\ A.la = 0 THEN MergeHighSucceed(A)
  ELSE MergeHighGallopMid(scores,
         [A EXCEPT !.w = Put(A.w, A.dest, A.t[A.ct + 1]),
                   !.dest = @ - 1, !.ct = @ - 1, !.lb = @ - 1])

\* nofWinsA = wa elements of the run in the work array are copied
MergeHighGallopA(scores, M, wa) ==
  MergeHighGallopNext(scores,
    [M EXCEPT !.first = FALSE,
              !.mg = IF @ - 1 < 1 THEN 1 ELSE @ - 1,
              !.wa = wa,
              !.w = IF wa > 0
                    THEN CopyRange(M.w, M.cur - wa + 1, M.w, M.dest - wa + 1, wa)
                    ELSE M.w,
              !.dest = @ - wa, !.cur = @ - wa, !.la = @ - wa],
    wa)

\* MergeHigh, one turn of the galloping loop (or its end)
MergeHighGallop(scores, M) ==
  IF ~(M.wa >= 7 \/ M.wb >= 7 \/ M.first)
  THEN [M EXCEPT !.mg = @ + 1, !.wa = 0, !.wb = 0, !.at = "highTake"]
  ELSE MergeHighGallopA(scores, M,
         M.la - GallopRight(scores, M.w, M.t[M.ct + 1], M.base, M.la, M.la - 1))

MergeStep(scores, M) ==
  IF M.at = "lowTake" THEN MergeLowTake(scores, M)
  ELSE IF M.at = "lowGallop" THEN MergeLowGallop(scores, M)
  ELSE IF M.at = "highTake" THEN MergeHighTake(scores, M)
  ELSE IF M.at = "highGallop" THEN MergeHighGallop(scores, M)
  ELSE M

\* up to `turns` turns of a merge's loops
RECURSIVE MergeTurns(_, _, _)
MergeTurns(scores, M, turns) ==
  IF M.at = "done" \/ turns = 0 THEN M
  ELSE IF turns = 1 THEN MergeStep(scores, M)
  ELSE MergeTurns(scores, MergeTurns(scores, M, turns \div 2),
                  turns - (turns \div 2))

\* a merge to its end: every turn but the one that leaves the galloping loop
\* moves an element, and that one is followed by one that does
MergeLoops(scores, M) == MergeTurns(scores, M, 2 * (M.la + M.lb) + 2)

\* MergeLow from its locals M
MergeLowFrom(scores, M) ==
  IF M.lb = 0 THEN MergeLowSucceed(M)
  ELSE IF M.la = 1 THEN MergeLowCopyB(M)
  ELSE MergeLoops(scores, M)

MergeLow(scores, w, baseA, lengthA, baseB, lengthB, mg) ==
  MergeLowFrom(scores,
    [w |-> Put(w, baseA, w[baseB + 1]),
     t |-> SubSeq(w, baseA + 1, baseA + lengthA),
     dest |-> baseA + 1, ct |-> 0, cur |-> baseB + 1, base |-> baseA,
     la |-> lengthA, lb |-> lengthB - 1, mg |-> mg, wa |-> 0, wb |-> 0,
     first |-> FALSE, at |-> "lowTake"])

\* MergeHigh from its locals M
MergeHighFrom(scores, M) ==
  IF M.la = 0 THEN MergeHighSucceed(M)
  ELSE IF M.lb = 1 THEN MergeHighCopyA(M)
  ELSE MergeLoops(scores, M)

MergeHigh(scores, w, baseA, lengthA, baseB, lengthB, mg) ==
  MergeHighFrom(scores,
    [w |-> Put(w, baseB + lengthB - 1, w[baseA + lengthA]),
     t |-> SubSeq(w, baseB + 1, baseB + lengthB),
     dest |-> baseB + lengthB - 2, ct |-> lengthB - 1,
     cur |-> baseA + lengthA - 2, base |-> baseA,
     la |-> lengthA - 1, lb |-> lengthB, mg |-> mg, wa |-> 0, wb |-> 0,
     first |-> FALSE, at |-> "highTake"])

(* The sort state S: w (workArray), runs (pendingRuns, <<base, length>> each),
   mg (minGallop), low and remaining (the locals of ArrayTimSortImpl). *)

\* the merged run takes the place of the two
MergedRuns(S, runs, merged) ==
  [S EXCEPT !.w = merged.w, !.runs = runs, !.mg = merged.mg]

\* MergeAt, the merge: lengthA elements at baseA with lengthB at baseB
MergeAtMerge(scores, S, runs, baseA, lengthA, baseB, lengthB) ==
  IF lengthB = 0 THEN [S EXCEPT !.runs = runs]
  ELSE MergedRuns(S, runs,
         IF lengthA <= lengthB
         THEN MergeLow(scores, S.w, baseA, lengthA, baseB, lengthB, S.mg)
         ELSE MergeHigh(scores, S.w, baseA, lengthA, baseB, lengthB, S.mg))

\* MergeAt, after the elements of run a already in place are left out:
\* gallopLeft for where the last element of a goes in run b
MergeAtTrimmed(scores, S, runs, baseA, lengthA, b) ==
  IF lengthA = 0 THEN [S EXCEPT !.runs = runs]
  ELSE MergeAtMerge(scores, S, runs, baseA, lengthA, b[1],
         GallopLeft(scores, S.w, S.w[baseA + lengthA], b[1], b[2], b[2] - 1))

\* MergeAt for the runs a and b at i and i + 1: the stack of runs is updated
\* and gallopRight finds where the first element of b goes in a
MergeAtRuns(scores, S, i, a, b, k) ==
  MergeAtTrimmed(scores, S,
    [p \in 1..(Len(S.runs) - 1) |->
       IF p < i + 1 THEN S.runs[p]
       ELSE IF p = i + 1 THEN <<a[1], a[2] + b[2]>>
       ELSE S.runs[p + 1]],
    a[1] + k, a[2] - k, b)

\* MergeAt: runs i and i + 1 (0-based) become one
MergeAt(scores, S, i) ==
  MergeAtRuns(scores, S, i, S.runs[i + 1], S.runs[i + 2],
              GallopRight(scores, S.w, S.w[S.runs[i + 2][1] + 1],
                          S.runs[i + 1][1], S.runs[i + 1][2], 0))

\* GetPendingRunLength, for the 0-based run n
RunLen(S, n) == S.runs[n + 1][2]

RunInvariantEstablished(S, n) ==
  IF n < 2 THEN TRUE ELSE RunLen(S, n - 2) > RunLen(S, n - 1) + RunLen(S, n)

\* MergeCollapse: which run to merge with its successor while the invariant
\* fails for the top runs (n is the last but one), -1 when none
CollapseAt(S, n) ==
  IF ~RunInvariantEstablished(S, n + 1) \/ ~RunInvariantEstablished(S, n)
  THEN (IF RunLen(S, n - 1) < RunLen(S, n + 1) THEN n - 1 ELSE n)
  ELSE IF RunLen(S, n) <= RunLen(S, n + 1) THEN n
  ELSE -1

RECURSIVE MergeCollapse(_, _)
MergeCollapse(scores, S) ==
  IF Len(S.runs) <= 1 THEN S
  ELSE IF CollapseAt(S, Len(S.runs) - 2) < 0 THEN S
  ELSE MergeCollapse(scores, MergeAt(scores, S, CollapseAt(S, Len(S.runs) - 2)))

RECURSIVE MergeForceCollapse(_, _)
MergeForceCollapse(scores, S) ==
  IF Len(S.runs) <= 1 THEN S
  ELSE LET n == Len(S.runs) - 2
       IN MergeForceCollapse(scores,
            MergeAt(scores, S,
                    IF n > 0 /\ RunLen(S, n - 1) < RunLen(S, n + 1) THEN n - 1
                    ELSE n))

\* the run of length `run` at low is pushed and the pending runs collapsed
PushRun(scores, S, w, run) ==
  MergeCollapse(scores,
                [S EXCEPT !.w = w, !.runs = Append(@, <<S.low, run>>),
                          !.low = @ + run, !.remaining = @ - run])

\* the counted run c, extended to `forced` elements by binary insertion when
\* shorter than minRun
ExtendRun(scores, S, minRun, c, forced) ==
  PushRun(scores, S,
          IF c.run < minRun
          THEN BinaryInsertionSort(scores, c.w, S.low, S.low + c.run,
                                   S.low + forced)
          ELSE c.w,
          IF c.run < minRun THEN forced ELSE c.run)

\* one turn of ArrayTimSortImpl's loop: the next run is counted, extended to
\* minRun by binary insertion when shorter, pushed, and the pending runs are
\* collapsed
NextRun(scores, S, minRun) ==
  ExtendRun(scores, S, minRun,
            CountAndMakeRun(scores, S.w, S.low, S.low + S.remaining),
            IF minRun < S.remaining THEN minRun ELSE S.remaining)

\* up to `turns` turns of that loop
RECURSIVE SortRuns(_, _, _, _)
SortRuns(scores, S, minRun, turns) ==
  IF S.remaining = 0 \/ turns = 0 THEN S
  ELSE IF turns = 1 THEN NextRun(scores, S, minRun)
  ELSE SortRuns(scores, SortRuns(scores, S, minRun, turns \div 2), minRun,
                turns - (turns \div 2))

\* line 68: [...scores.keys()].sort(comparator)
SortKeys(scores, arr) ==
  IF Len(arr) < 2 THEN arr
  ELSE MergeForceCollapse(scores,
         SortRuns(scores,
                  [w |-> arr, runs |-> <<>>, mg |-> 7, low |-> 0,
                   remaining |-> Len(arr)],
                  ComputeMinRunLength(Len(arr), 0), Len(arr))).w

\* 10^k
RECURSIVE BigPow10(_)
BigPow10(k) == IF k = 0 THEN <<1>> ELSE BigMul(BigPow10(k - 1), <<10>>)

\* the integer nearest to num * 2^e, the larger one on a tie
NearestInteger(num, e) ==
  IF e >= 0 THEN BigShl(num, e)
  ELSE IF BigBit(num, -e - 1) = 1 THEN BigAdd(BigShr(num, -e), <<1>>)
  ELSE BigShr(num, -e)

\* the digits d of a number of tenths, with a digit before the point
WithUnits(d) ==
  IF Len(d) = 0 THEN <<0, 0>> ELSE IF Len(d) = 1 THEN <<0>> \o d ELSE d

\* (x).toFixed(1): the decimal text of x with one digit after the point, the
\* nearer tenth of the exact value and the larger one on a tie; `digits` are
\* the digits of the text, the last one after the point. "NaN", "Infinity"
\* and "-Infinity" are texts of their own, and from 10^21 on the text is the
\* exponent notation of String(x), whose digits are not worked out here.
ToFixed1(x) ==
  IF x.k = "nan" THEN [k |-> "NaN", neg |-> FALSE, digits |-> <<>>]
  ELSE IF x.k = "inf" THEN [k |-> "Infinity", neg |-> x.s = -1, digits |-> <<>>]
  ELSE IF BigBitLen(x.n) + x.e > 69
            /\ BigCmp(BigShl(x.n, x.e), BigPow10(21)) >= 0
       THEN [k |-> "exponent", neg |-> x.s = -1, digits |-> <<>>]
  ELSE [k |-> "num", neg |-> x.s = -1 /\ x.n # <<>>,
        digits |-> WithUnits(BigDecimal(NearestInteger(BigMul(x.n, <<10>>), x.e)))]

\* .slice(0, topK) for an integer topK >= 0
Slice(arr, topK) ==
  SubSeq(arr, 1, IF topK < Len(arr) THEN topK ELSE Len(arr))

\* line 69: the rows of `top`, each with its score as text
Results(m, scores, top) ==
  [p \in 1..Len(top) |->
     LET i == top[p] + 1
     IN [id |-> m[i][1], handle |-> m[i][2], title |-> m[i][3], img |-> m[i][4],
         score |-> ToFixed1(FMul(scores[i], Int2F(100)))]]

\* lines 68-69 over the scores of line 62-67
Ranked(topK, m, scores) ==
  Results(m, scores, Slice(SortKeys(scores, [p \in 1..Len(m) |-> p - 1]), topK))

\* a variant whose slice stops one short of topK
SearchShort(query, topK, m, emb) ==
  Ranked(IF topK > 0 THEN topK - 1 ELSE 0, m, Scores(query, m, emb))

\* lines 61-70: search(query, topK) over the globals meta (m) and embeddings (emb)
Search(query, topK, m, emb) == Ranked(topK, m, Scores(query, m, emb))

-----------------------------------------------------------------------------
(* Start-up *)

\* lines 12-16, in the order Object.entries walks them
FILES == <<"model.onnx", "vs-embeddings.bin", "vs-meta.json">>

\* a module global before its assignment, and after
Undefined == [def |-> FALSE, v |-> <<>>]
Defined(x) == [def |-> TRUE, v |-> x]

\* lines 20-26: "ok" when the file exists or the download succeeds, "throw" when
\* it is missing with no URL configured or curl fails
downloadIfMissing(exists, hasUrl, curlOk) ==
  IF exists THEN "ok"
  ELSE IF ~hasUrl THEN "throw"
  ELSE IF curlOk THEN "ok" ELSE "throw"

\* the metadata file of a catalog of n products: [id, handle, title, img] tuples
ProductRecord(i) == <<i, "handle", "title", "img">>
MetaFile(n) == [i \in 1..n |-> ProductRecord(i)]

\* the half-precision words the blobs are made of:
\* 1.0, 0.5, +Infinity, a NaN, 0
WordAt(w) == <<15360, 14336, 31744, 32256, 0>>[w]

\* the bytes of a sequence of 16-bit words, little-endian
WordBytes(ws) ==
  [b \in 1..(2 * Len(ws)) |->
     IF b % 2 = 1 THEN ws[(b + 1) \div 2] % 256 ELSE ws[b \div 2] \div 256]

\* the blob files the server is started on: row r holds 1.0 in column
\* ((r-1) mod Dim), 0.5 elsewhere in even rows and 0 elsewhere in odd rows;
\* the file is cut or extended to `len` bytes
CatalogWord(r, j) ==
  IF j = ((r - 1) % Dim) + 1 THEN WordAt(1)
  ELSE IF r % 2 = 0 THEN WordAt(2) ELSE WordAt(5)

CatalogWords(rows) ==
  [c \in 1..(rows * Dim) |-> CatalogWord(((c - 1) \div Dim) + 1, ((c - 1) % Dim) + 1)]

BlobFile(len) == SubSeq(WordBytes(CatalogWords((len \div (2 * Dim)) + 1)), 1, len)

\* how far a blob's size is from metadata length * Dim * 2: one byte short,
\* exact, two bytes long
SizeSkews == {-1, 0, 2}

\* line 30: for (const [f, url] of Object.entries(FILES)) await downloadIfMissing;
\* a throw rejects init(), which line 100 does not handle: the process ends
InitDownload ==
  /\ pc = "files"
  /\ \E exists \in BOOLEAN, hasUrl \in BOOLEAN, curlOk \in BOOLEAN :
       IF downloadIfMissing(exists, hasUrl, curlOk) = "ok"
       THEN /\ nextFile' = nextFile + 1
            /\ pc' = IF nextFile = Len(FILES) THEN "load" ELSE "files"
            /\ UNCHANGED crashed
       ELSE /\ pc' = "failed"
            /\ crashed' = TRUE
            /\ UNCHANGED nextFile
  /\ UNCHANGED <<session, meta, embeddings, binLength, listening, req, probe>>

\* lines 34-45, one continuation: the session is created (or create() rejects),
\* the metadata read and parsed (or readFileSync / JSON.parse throws), the blob
\* read (or readFileSync throws, embeddings still unassigned) and decoded (or
\* readUInt16LE throws past its end).  A failure rejects init(), which line
\* 100 does not handle: the process ends.
InitLoad ==
  /\ pc = "load"
  /\ \E modelOk \in BOOLEAN, metaOk \in BOOLEAN, binOk \in BOOLEAN,
        n \in 0..MaxN, skew \in SizeSkews :
       /\ n * Dim * 2 + skew >= 0
       /\ LET bin == BlobFile(n * Dim * 2 + skew)
              d == DecodeBlob(bin, n * Dim)
          IN IF ~modelOk
             THEN /\ pc' = "failed"
                  /\ crashed' = TRUE
                  /\ UNCHANGED <<session, meta, embeddings, binLength>>
             ELSE IF ~metaOk
             THEN /\ pc' = "failed"
                  /\ crashed' = TRUE
                  /\ session' = "InferenceSession"
                  /\ UNCHANGED <<meta, embeddings, binLength>>
             ELSE IF ~binOk
             THEN /\ pc' = "failed"
                  /\ crashed' = TRUE
                  /\ session' = "InferenceSession"
                  /\ meta' = Defined(MetaFile(n))
                  /\ UNCHANGED <<embeddings, binLength>>
             ELSE /\ session' = "InferenceSession"
                  /\ meta' = Defined(MetaFile(n))
                  /\ binLength' = Len(bin)
                  /\ embeddings' = Defined(d.v)
                  /\ pc' = IF d.ok THEN "done" ELSE "failed"
                  /\ crashed' = ~d.ok
  /\ UNCHANGED <<nextFile, listening, req, probe>>

\* a variant that listens without waiting for init()
ListenEarly ==
  /\ ~listening
  /\ ~crashed
  /\ \E bound \in BOOLEAN :
       IF bound
       THEN /\ listening' = TRUE
            /\ UNCHANGED crashed
       ELSE /\ crashed' = TRUE
            /\ UNCHANGED listening
  /\ UNCHANGED <<pc, nextFile, session, meta, embeddings, binLength, req, probe>>

\* line 100: init().then(() => server.listen(PORT)). Once init() has resolved
\* the server binds the port and listens; or the bind fails (the address is in
\* use), the server emits an 'error' event nobody listens for, and the process
\* exits with nothing served
Listen ==
  /\ pc = "done"
  /\ ~listening
  /\ ~crashed
  /\ \E bound \in BOOLEAN :
       IF bound
       THEN /\ listening' = TRUE
            /\ UNCHANGED crashed
       ELSE /\ crashed' = TRUE
            /\ UNCHANGED listening
  /\ UNCHANGED <<pc, nextFile, session, meta, embeddings, binLength, req, probe>>

-----------------------------------------------------------------------------
(* The image decoder and the model: external, a fixed function of the bytes *)

\* the unit a request body arrives in: kind 1 is 5,000,000 bytes, kind 2 is
\* 6,000,000 bytes of other content
ChunkKinds == {1, 2}
ChunkLength(c) == IF c = 2 THEN 6000000 ELSE 5000000

\* line 87: size > 10e6
LIMIT == 10000000

\* line 61: topK = 20
DefaultTopK == 20

\* Buffer.concat(chunks): the content of the body
RECURSIVE Digest(_, _)
Digest(buf, i) == IF i > Len(buf) THEN 0 ELSE i * buf[i] + Digest(buf, i + 1)

Axis(p, x) == [j \in 1..Dim |-> IF j = p THEN x ELSE Zero]

\* the vector (x, y, 0, ...)
Lead(x, y) == [j \in 1..Dim |-> IF j = 1 THEN x ELSE IF j = 2 THEN y ELSE Zero]

\* what sharp and session.run make of a body: sharp rejects the empty buffer
\* and undecodable bytes, the model rejects some tensors, and the raw vectors
\* are the zero vector, 2*e1, (Infinity, 0, ...) and -4*eDim
External(buf) ==
  LET d == Digest(buf, 1) % 7
  IN [sharpOk |-> d \notin {0, 6},
      runOk |-> d # 1,
      raw |-> IF d = 2 THEN Axis(0, Zero)
              ELSE IF d = 3 THEN Axis(1, Int2F(2))
              ELSE IF d = 4 THEN Axis(1, Inf(1))
              ELSE Axis(Dim, Int2F(-4))]

-----------------------------------------------------------------------------
(* The request handler, lines 72-98 *)

Reqs == 1..MaxReq

NoBody == [t |-> "", n |-> 0, items |-> <<>>]
TextBody(t) == [t |-> t, n |-> 0, items |-> <<>>]

IdleReq ==
  [st |-> "idle", route |-> "", size |-> 0, chunks |-> <<>>, status |-> 200,
   body |-> NoBody, sent |-> 0, embeds |-> 0, searches |-> 0, buf |-> <<>>,
   query |-> <<>>, error |-> ""]

\* res.statusCode = status (200 unless set); res.end(body)
Respond(q, status, body) ==
  [q EXCEPT !.st = "done", !.status = status, !.body = body, !.sent = q.sent + 1]

Serving == listening /\ ~crashed

Globals == <<pc, nextFile, session, meta, embeddings, binLength>>

\* line 77
Options(r) ==
  /\ Serving /\ req[r].st = "idle"
  /\ req' = [req EXCEPT ![r] = Respond([@ EXCEPT !.route = "OPTIONS"], 200, NoBody)]
  /\ UNCHANGED <<Globals, listening, crashed, probe>>

\* lines 78-81: the handler sets the content type, opens the page as a stream,
\* pipes it into the response and returns; nothing has been sent yet
GetRoot(r) ==
  /\ Serving /\ req[r].st = "idle"
  /\ req' = [req EXCEPT ![r] = [@ EXCEPT !.route = "GET /", !.st = "piping"]]
  /\ UNCHANGED <<Globals, listening, crashed, probe>>

\* line 80, in a later turn: the stream has delivered the page and pipe ends
\* the response
PipeEnd(r) ==
  /\ Serving /\ req[r].st = "piping"
  /\ req' = [req EXCEPT ![r] = Respond(@, 200, TextBody("html"))]
  /\ UNCHANGED <<Globals, listening, crashed, probe>>

\* line 80, in a later turn: the file cannot be opened; the stream's 'error'
\* event has no listener, which ends the process with the response unsent
PipeError(r) ==
  /\ Serving /\ req[r].st = "piping"
  /\ req' = [req EXCEPT ![r] = [@ EXCEPT !.st = "lost"]]
  /\ crashed' = TRUE
  /\ UNCHANGED <<Globals, listening, probe>>

\* a variant of the health route that drops the last product while reporting
HealthShift(r) ==
  /\ Serving /\ req[r].st = "idle"
  /\ req' = [req EXCEPT ![r] =
               Respond([@ EXCEPT !.route = "GET /health"], 200,
                       [t |-> "health", n |-> Len(meta.v), items |-> <<>>])]
  /\ meta' = [meta EXCEPT !.v = SubSeq(@, 1, Len(@) - 1)]
  /\ UNCHANGED <<pc, nextFile, session, embeddings, binLength, listening, crashed, probe>>

\* lines 82-84: { ok: true, products: meta.length }
Health(r) ==
  /\ Serving /\ req[r].st = "idle"
  /\ req' = [req EXCEPT ![r] =
               Respond([@ EXCEPT !.route = "GET /health"], 200,
                       [t |-> "health", n |-> Len(meta.v), items |-> <<>>])]
  /\ UNCHANGED <<Globals, listening, crashed, probe>>

\* line 97
NotFound(r) ==
  /\ Serving /\ req[r].st = "idle"
  /\ req' = [req EXCEPT ![r] =
               Respond([@ EXCEPT !.route = "other"], 404, TextBody("Not found"))]
  /\ UNCHANGED <<Globals, listening, crashed, probe>>

\* lines 85-86: a POST /search arrives; chunks = [], size = 0
PostSearch(r) ==
  /\ Serving /\ req[r].st = "idle"
  /\ req' = [req EXCEPT ![r] = [@ EXCEPT !.route = "POST /search", !.st = "reading"]]
  /\ UNCHANGED <<Globals, listening, crashed, probe>>

\* a variant of the admission test without the return: 413 is sent and the
\* loop goes on
AfterChunkNoReturn(q, c) ==
  IF q.size + ChunkLength(c) > LIMIT
  THEN [q EXCEPT !.size = q.size + ChunkLength(c), !.chunks = Append(q.chunks, c),
                 !.status = 413, !.body = TextBody("Too large"), !.sent = q.sent + 1]
  ELSE [q EXCEPT !.size = q.size + ChunkLength(c), !.chunks = Append(q.chunks, c)]

\* line 87, one turn of the loop: size += c.length; over the limit the request
\* is answered 413 and the handler returns (its chunks are dropped with it)
AfterChunk(q, c) ==
  IF q.size + ChunkLength(c) > LIMIT
  THEN Respond([q EXCEPT !.size = q.size + ChunkLength(c), !.chunks = <<>>],
               413, TextBody("Too large"))
  ELSE [q EXCEPT !.size = q.size + ChunkLength(c), !.chunks = Append(q.chunks, c)]

ReadChunk(r) ==
  /\ Serving /\ req[r].st = "reading"
  /\ Len(req[r].chunks) < MaxChunks
  /\ \E c \in ChunkKinds : req' = [req EXCEPT ![r] = AfterChunk(@, c)]
  /\ UNCHANGED <<Globals, listening, crashed, probe>>

\* line 87: the request stream fails (the client aborts); the for-await throws
\* outside the try block, the handler's promise rejects with nobody awaiting
\* it (its locals are gone), and the runtime either ends the process or only
\* warns
StreamError(r) ==
  /\ Serving /\ req[r].st = "reading"
  /\ req' = [req EXCEPT ![r] = [@ EXCEPT !.st = "lost", !.chunks = <<>>, !.size = 0]]
  /\ crashed' \in BOOLEAN
  /\ UNCHANGED <<Globals, listening, probe>>

\* a variant in which chunks is one array shared by the requests in flight
EmbedInputShared(r) ==
  LET others == {o \in Reqs : o # r /\ req[o].st \in {"reading", "sharp", "run"}
                                    /\ req[o].chunks # <<>>}
  IN IF others = {} THEN req[r].chunks
     ELSE req[r].chunks \o req[CHOOSE o \in others : TRUE].chunks

\* line 90: the buffer the request in slot r passes to embed,
\* Buffer.concat(chunks), of the chunks its own loop collected
EmbedInput(r) == req[r].chunks

\* lines 87-90: the stream ends; embed(Buffer.concat(chunks)) is called and
\* awaits sharp
EndOfBody(r) ==
  /\ Serving /\ req[r].st = "reading"
  /\ req' = [req EXCEPT ![r] = [@ EXCEPT !.st = "sharp", !.embeds = @ + 1,
                                           !.buf = EmbedInput(r)]]
  /\ UNCHANGED <<Globals, listening, crashed, probe>>

\* the promise embed() returned rejects with `message`
Rejected(q, message) == [q EXCEPT !.st = "rejected", !.error = message]

\* line 51: sharp resolves with the pixels and embed goes on to session.run
\* (lines 52-55), or sharp rejects and embed() rejects with it
SharpDone(r) ==
  /\ Serving /\ req[r].st = "sharp"
  /\ req' = [req EXCEPT ![r] =
               IF External(req[r].buf).sharpOk
               THEN [@ EXCEPT !.st = "run"]
               ELSE Rejected(@, "decode error")]
  /\ UNCHANGED <<Globals, listening, crashed, probe>>

\* lines 55-58: session.run resolves, embed normalizes the vector and returns
\* it (its promise resolves with the query); or session.run rejects and
\* embed() rejects with it
RunDone(r) ==
  /\ Serving /\ req[r].st = "run"
  /\ LET ext == External(req[r].buf)
     IN req' = [req EXCEPT ![r] =
                  IF ~ext.runOk THEN Rejected(@, "inference error")
                  ELSE [@ EXCEPT !.st = "resolved", !.query = Normalize(ext.raw)]]
  /\ UNCHANGED <<Globals, listening, crashed, probe>>

\* lines 90-93: the handler resumes from `await embed(...)` with the query,
\* calls search and sends the JSON of the results
SearchAndRespond(r) ==
  /\ Serving /\ req[r].st = "resolved"
  /\ req' = [req EXCEPT ![r] =
               Respond([@ EXCEPT !.searches = @ + 1], 200,
                       [t |-> "results", n |-> 0,
                        items |-> Search(req[r].query, DefaultTopK, meta.v,
                                         embeddings.v)])]
  /\ UNCHANGED <<Globals, listening, crashed, probe>>

\* line 94: the handler resumes from `await embed(...)` with the rejection:
\* catch (e) { res.statusCode = 500; res.end({ error: e.message }) }
CatchError(r) ==
  /\ Serving /\ req[r].st = "rejected"
  /\ req' = [req EXCEPT ![r] = Respond(@, 500, TextBody(req[r].error))]
  /\ UNCHANGED <<Globals, listening, crashed, probe>>

-----------------------------------------------------------------------------
(* The server: start-up, then requests *)

Init ==
  /\ pc = "files"
  /\ nextFile = 1
  /\ session = "undefined"
  /\ meta = Undefined
  /\ embeddings = Undefined
  /\ binLength = 0
  /\ listening = FALSE
  /\ crashed = FALSE
  /\ req = [r \in Reqs |-> IdleReq]
  /\ probe = [op |-> "none"]

Next ==
  \/ InitDownload
  \/ InitLoad
  \/ Listen
  \/ \E r \in Reqs :
       \/ Options(r)
       \/ GetRoot(r)
       \/ PipeEnd(r)
       \/ PipeError(r)
       \/ Health(r)
       \/ NotFound(r)
       \/ PostSearch(r)
       \/ ReadChunk(r)
       \/ StreamError(r)
       \/ EndOfBody(r)
       \/ SharpDone(r)
       \/ RunDone(r)
       \/ SearchAndRespond(r)
       \/ CatchError(r)

Spec == Init /\ [][Next]_vars

-----------------------------------------------------------------------------
(* search called directly: any store init() can build, any query embed can
   return, any topK *)

\* a row of the store: word w in column p, zeros elsewhere
RowSpecs == ((1..Dim) \X (1..4)) \cup {<<1, 5>>}

RowWords(rows) ==
  [c \in 1..(Len(rows) * Dim) |->
     LET row == rows[((c - 1) \div Dim) + 1]
     IN IF ((c - 1) % Dim) + 1 = row[1] THEN WordAt(row[2]) ELSE WordAt(5)]

\* raw feature vectors: 2 and -4 on every axis, (1, 2, 0, ...) and
\* (3, -4, 0, ...), the zero vector, an infinite one
RawVectors ==
  {Axis(p, x) : p \in 1..Dim, x \in {Int2F(2), Int2F(-4)}}
    \cup {Lead(Int2F(1), Int2F(2)), Lead(Int2F(3), Int2F(-4))}
    \cup {Axis(0, Zero), Axis(1, Inf(1))}

\* the queries embed returns for them
Queries == {Normalize(raw) : raw \in RawVectors}

InitSearch ==
  /\ pc = "done"
  /\ nextFile = Len(FILES) + 1
  /\ session = "InferenceSession"
  /\ \E n \in 0..MaxN : \E rows \in [1..n -> RowSpecs] :
       /\ meta = Defined(MetaFile(n))
       /\ embeddings = Defined(DecodeBlob(WordBytes(RowWords(rows)), n * Dim).v)
       /\ binLength = n * Dim * 2
  /\ listening = FALSE
  /\ crashed = FALSE
  /\ req = [r \in Reqs |-> IdleReq]
  /\ \E query \in Queries, k \in 0..MaxK :
       probe = [op |-> "search", query |-> query, topK |-> k,
                done |-> FALSE, out |-> <<>>]

SearchCall ==
  /\ probe.op = "search"
  /\ ~probe.done
  /\ probe' = [probe EXCEPT !.done = TRUE,
                 !.out = Search(probe.query, probe.topK, meta.v, embeddings.v)]
  /\ UNCHANGED <<Globals, listening, crashed, req>>

SpecSearch == InitSearch /\ [][SearchCall]_vars

-----------------------------------------------------------------------------
(* the decoder applied to one element of a blob of two words *)

InitDecode ==
  /\ pc = "load"
  /\ nextFile = Len(FILES) + 1
  /\ session = "InferenceSession"
  /\ meta = Undefined
  /\ embeddings = Undefined
  /\ binLength = 0
  /\ listening = FALSE
  /\ crashed = FALSE
  /\ req = [r \in Reqs |-> IdleReq]
  /\ \E i \in 0..1, lo \in 0..255, hi \in 0..255 :
       probe = [op |-> "decode", i |-> i,
                bin |-> IF i = 0 THEN <<lo, hi, 0, 60>> ELSE <<0, 60, lo, hi>>,
                done |-> FALSE, h |-> 0, out |-> Zero]

\* lines 39-43 for element i
DecodeElement ==
  /\ probe.op = "decode"
  /\ ~probe.done
  /\ LET h == readUInt16LE(probe.bin, probe.i * 2)
     IN probe' = [probe EXCEPT !.done = TRUE, !.h = h,
                    !.out = IF h < 0 THEN Zero ELSE ToFloat32(HalfToFloat(h))]
  /\ UNCHANGED <<Globals, listening, crashed, req>>

SpecDecode == InitDecode /\ [][DecodeElement]_vars

-----------------------------------------------------------------------------
(* Properties *)

Min(a, b) == IF a < b THEN a ELSE b

Handled(r) == req[r].st # "idle"

\* the store init() assigns from a metadata file of n products and the blob
\* of binLength bytes: every one of the n * Dim elements decoded from its
\* word of the file
StorePopulated ==
  /\ session = "InferenceSession"
  /\ meta.def
  /\ embeddings.def
  /\ Len(embeddings.v) = Len(meta.v) * Dim
  /\ binLength >= 2 * Len(embeddings.v)
  /\ \A i \in 1..Len(embeddings.v) :
       embeddings.v[i] =
         HalfToFloat(CatalogWord(((i - 1) \div Dim) + 1, ((i - 1) % Dim) + 1))

\* C1: the server listens, and a request is handled, only after init() has
\* completed with session, meta and all meta.length * Dim embeddings
\* populated; after a failed init() it never listens and handles nothing.
C1_ServeOnlyInitialized ==
  /\ listening => (pc = "done" /\ StorePopulated)
  /\ \A r \in Reqs : Handled(r) => listening
  /\ pc = "failed" => (~listening /\ \A r \in Reqs : ~Handled(r))

C1_Witness ==
  \E r \in Reqs :
    /\ req[r].st = "done" /\ req[r].route = "POST /search" /\ req[r].status = 200
    /\ Len(meta.v) = MaxN
    /\ Len(req[r].body.items) = MaxN

\* C2: whenever the blob's byte length differs from metadata length * Dim * 2
\* (too short or too long), init() fails and the server never becomes ready.
C2_MismatchFailsInit ==
  (meta.def /\ embeddings.def /\ binLength # Len(meta.v) * Dim * 2)
    => (pc = "failed" /\ ~listening)

\* C3: search(query, k) returns exactly min(k, N) results for any catalog size
\* N >= 0 and any k >= 0; k = 0 gives none, k > N gives all N.
C3_ResultSize ==
  (probe.op = "search" /\ probe.done)
    => Len(probe.out) = Min(probe.topK, Len(meta.v))

C3_Witness ==
  /\ probe.op = "search" /\ probe.done
  /\ Len(meta.v) = MaxN
  /\ probe.topK > MaxN
  /\ Len(probe.out) = MaxN

\* digit sequences of equal length, compared from position p on
RECURSIVE DigitsGeqAt(_, _, _)
DigitsGeqAt(a, b, p) ==
  IF p > Len(a) THEN TRUE
  ELSE IF a[p] > b[p] THEN TRUE
  ELSE IF a[p] < b[p] THEN FALSE
  ELSE DigitsGeqAt(a, b, p + 1)

\* the magnitude written with digits a is at least the one written with b
DigitsGeq(a, b) ==
  Len(a) > Len(b) \/ (Len(a) = Len(b) /\ DigitsGeqAt(a, b, 1))

AllZero(a) == \A p \in 1..Len(a) : a[p] = 0

\* the number a score text stands for is at least the next one's
ScoreGeq(a, b) ==
  /\ a.k \in {"num", "Infinity"}
  /\ b.k \in {"num", "Infinity"}
  /\ \/ (a.k = "Infinity" /\ ~a.neg)
     \/ (b.k = "Infinity" /\ b.neg)
     \/ /\ a.k = "num" /\ b.k = "num"
        /\ IF a.neg = b.neg
           THEN (IF a.neg THEN DigitsGeq(b.digits, a.digits)
                 ELSE DigitsGeq(a.digits, b.digits))
           ELSE ~a.neg \/ (AllZero(a.digits) /\ AllZero(b.digits))

NonIncreasing(out) ==
  \A p \in 1..(Len(out) - 1) : ScoreGeq(out[p].score, out[p + 1].score)

\* C4: for every store decoded from a blob (Infinity and NaN included) the
\* scores search returns are non-increasing by position; stated here for the
\* queries whose components are all finite, the part of the claim that does
\* not rest on what embed returns.
C4_ScoresNonIncreasing ==
  (/\ probe.op = "search" /\ probe.done
   /\ \A j \in 1..Len(probe.query) : IsFinite(probe.query[j]))
    => NonIncreasing(probe.out)

RECURSIVE TotalLength(_)
TotalLength(cs) == IF cs = <<>> THEN 0 ELSE ChunkLength(Head(cs)) + TotalLength(Tail(cs))

\* C5: a POST /search whose accumulated body size exceeds the limit is
\* answered 413, once, and neither embed nor search is invoked for it; embed
\* is invoked only for a body within the limit, all of whose chunks were kept.
C5_AdmissionBound ==
  \A r \in Reqs :
    /\ req[r].size > LIMIT =>
         /\ req[r].st = "done" /\ req[r].status = 413 /\ req[r].sent = 1
         /\ req[r].embeds = 0 /\ req[r].searches = 0
    /\ req[r].embeds > 0 =>
         /\ req[r].size <= LIMIT
         /\ req[r].size = TotalLength(req[r].chunks)

C5_Witness ==
  /\ \E r \in Reqs : req[r].size > LIMIT /\ req[r].status = 413
  /\ \E r \in Reqs : req[r].embeds > 0 /\ req[r].size = LIMIT /\ req[r].status = 200
                       /\ req[r].st = "done"

\* C6: every POST /search request that has ended, whatever failed (body
\* stream, decode, inference, scoring), got exactly one response: the ranked
\* results or a failure.
C6_OneResponsePerRequest ==
  \A r \in Reqs :
    (req[r].route = "POST /search" /\ req[r].st \in {"done", "lost"})
      => /\ req[r].sent = 1
         /\ \/ req[r].status = 200 /\ req[r].body.t = "results"
            \/ req[r].status \in {413, 500}

\* C7: a raw vector whose norm is zero or not finite makes embed fail, so
\* search is never called with a query holding NaN or Infinity and no result
\* list is returned for that request.
C7_NoDegenerateQuery ==
  \A r \in Reqs :
    req[r].searches > 0 => \A j \in 1..Len(req[r].query) : IsFinite(req[r].query[j])

Embedded(r) == req[r].st = "done" /\ req[r].embeds > 0

\* C8: two requests with byte-identical bodies get identical answers (same
\* status, same items in the same order with the same scores), however their
\* steps interleave with each other and with those of the other requests in
\* flight at the handler's await points: the answer depends on the request's
\* own body and the store only.
C8_Deterministic ==
  \A r1, r2 \in Reqs :
    (Embedded(r1) /\ Embedded(r2) /\ req[r1].chunks = req[r2].chunks)
      => (req[r1].status = req[r2].status /\ req[r1].body = req[r2].body)

C8_Witness ==
  \E r1, r2, r3 \in Reqs :
    /\ r1 # r2 /\ Embedded(r1) /\ Embedded(r2)
    /\ req[r1].chunks = req[r2].chunks
    /\ req[r1].status = 200
    /\ Len(req[r1].body.items) = MaxN
    /\ req[r3].st \in {"sharp", "run", "resolved"}
    /\ req[r3].chunks # req[r1].chunks
    /\ req[r3].chunks # <<>>

\* C9: once init() has completed no step changes session, meta or embeddings,
\* and /health reports that meta.length.
C9_StoreFrozen ==
  /\ [][pc = "done" => (session' = session /\ meta' = meta
                          /\ embeddings' = embeddings)]_vars
  /\ [](\A r \in Reqs :
          (req[r].route = "GET /health" /\ req[r].st = "done")
            => req[r].body.n = Len(meta.v))

C9_Witness ==
  /\ Len(meta.v) = MaxN
  /\ \E r \in Reqs : req[r].route = "GET /health" /\ req[r].st = "done"
                       /\ req[r].body.n = MaxN
  /\ \E r \in Reqs : req[r].route = "POST /search" /\ req[r].st = "done"

\* the value the rules give a word of sign s, exponent e, mantissa m
HalfRule(s, e, m) ==
  LET sg == IF s = 1 THEN -1 ELSE 1
  IN IF e = 0 THEN Fin(sg, m, -24)
     ELSE IF e = 31 THEN (IF m = 0 THEN Inf(sg) ELSE NaN)
     ELSE Fin(sg, 1024 + m, e - 25)

\* C10: element i is decoded from the little-endian word at byte 2*i, no bit
\* pattern raises, and a word of sign s, exponent e, mantissa m decodes to
\* sign * 2^-14 * m/1024 (e = 0), sign * Infinity or NaN (e = 31),
\* sign * 2^(e-15) * (1 + m/1024) otherwise.
C10_DecoderTotal ==
  (probe.op = "decode" /\ probe.done) =>
    LET word == probe.bin[2 * probe.i + 1] + 256 * probe.bin[2 * probe.i + 2]
    IN /\ probe.h = word
       /\ \E s \in 0..1, e \in 0..31 :
            LET m == word - s * 32768 - e * 1024
            IN m \in 0..1023 /\ probe.out = HalfRule(s, e, m)

C10_Witness ==
  /\ probe.op = "decode" /\ probe.done
  /\ probe.i = 1
  /\ probe.h = 32769
  /\ probe.out = Fin(-1, 1, -24)

====
